---- MODULE Spec2Model ----
(***************************************************************************)
(* VynixC bot API: the bot manager (identity store), the command proxy     *)
(* (command registry, dispatch, console execution) and their persistence,  *)
(* modelled from src/vynixc_bot.js.                                        *)
(*                                                                         *)
(* Texts are sequences of one-character strings, so that the regular       *)
(* expression /^\/+/ and toLowerCase() are computed, not assumed.          *)
(* Fields that no operation ever reads back (a bot's display name, the     *)
(* description, created_at, the player id/name/args of a trigger) are      *)
(* carried through unchanged by the code and are left out of the records.  *)
(***************************************************************************)
EXTENDS Integers, Sequences, FiniteSets, TLC

\* ---------------------------------------------------------------- bounds
\* createBot is offered while fewer than MaxBots identities were allocated.
MaxBots == 2
\* a successful createCommand is offered while the registry holds fewer.
MaxCommands == 2
\* a save on the structured-table backend is offered while fewer writes wait.
MaxPending == 2
\* the texts given to the normalization have at most MaxLen characters.
MaxLen == 5

\* ---------------------------------------------------------------- values
\* JavaScript null.
NULL == "null"

\* The role strings the administrative surface passes to createBot.
Roles == {"command_creator", "admin", "executor"}

\* webhook arguments of createBot: null, the empty text (falsy), a URL.
WebhookArgs == {NULL, "", "http://x/hook"}

\* callback arguments of createCommand: null or a host handler name.
CallbackArgs == {NULL, "OnVipActivate"}

\* Raw command texts offered to the operations.
RawNames ==
  { <<>>, <<"/">>, <<"v">>, <<"V">>, <<"/", "V">>, <<"/", "/", "v">>, <<"w">> }

\* A JavaScript value given as a command name: a string, or a non-string.
Str(s) == [type |-> "string", chars |-> s]
NotAString == [type |-> "number", chars |-> <<>>]
CommandArgs == {Str(s) : s \in RawNames} \cup {NotAString}

\* String.prototype.toLowerCase on one character.
LowerChar(c) ==
  CASE c = "V" -> "v"
    [] c = "W" -> "w"
    [] c = "I" -> "i"
    [] c = "P" -> "p"
    [] OTHER -> c

toLowerCase(s) == [i \in 1..Len(s) |-> LowerChar(s[i])]

\* s.replace(/^\//, ''): drop one leading '/'.
StripLeadingSlashes_Once(s) == IF s # <<>> /\ Head(s) = "/" THEN Tail(s) ELSE s

\* s.replace(/^\/+/, ''): drop the longest prefix made of '/' characters.
RECURSIVE StripLeadingSlashes(_)
StripLeadingSlashes(s) ==
  IF s # <<>> /\ Head(s) = "/" THEN StripLeadingSlashes(Tail(s)) ELSE s

\* command.replace(/^\/+/, '').toLowerCase()
Normalize(s) == toLowerCase(StripLeadingSlashes(s))

\* crypto.randomBytes(24).toString('hex'): a fresh secret per call; k tells
\* the calls apart.
generateToken(k) == <<"token", k>>

\* String(n) for the ids the counter produces.
IdOf(n) == ToString(n)

EmptyMap == [k \in {} |-> NULL]

Remove(f, k) == [x \in (DOMAIN f) \ {k} |-> f[x]]

\* Array.prototype.filter(c => c !== x)
RECURSIVE Without(_, _)
Without(seq, x) ==
  IF seq = <<>> THEN <<>>
  ELSE IF Head(seq) = x THEN Without(Tail(seq), x)
  ELSE <<Head(seq)>> \o Without(Tail(seq), x)

Includes(seq, x) == \E i \in 1..Len(seq) : seq[i] = x

\* ---------------------------------------------------------------- state
VARIABLES
  bots,         \* BotManager.bots: id -> bot
  nextId,       \* BotManager.nextId
  commands,     \* CommandProxy.commands: name -> meta
  sqlite3,      \* the sqlite3 driver could be required
  fetchAPI,     \* a fetch implementation could be resolved
  jsonFile,     \* contents of vynixc_data/vynixc_commands.json
  sqlBots,      \* table bots of vynixc_data.sqlite: id -> stored bot
  sqlCommands,  \* table commands of vynixc_data.sqlite: name -> stored meta
  sqliteFile,   \* vynixc_data.sqlite exists
  pending,      \* writes queued on the two sqlite connections, in issue order
  loading,      \* rows of the startup SELECTs whose callback has not run yet
  minted,       \* the id given to each identity created so far, in order
  ret,          \* the last call: operation, token, argument, outcome, returned value
  events        \* external calls made by the last call, in order

mem == <<bots, nextId, commands>>
env == <<sqlite3, fetchAPI>>
disk == <<jsonFile, sqlBots, sqlCommands, sqliteFile, pending>>
vars == <<bots, nextId, commands, sqlite3, fetchAPI, jsonFile, sqlBots,
          sqlCommands, sqliteFile, pending, loading, minted, ret, events>>

NoFile == [kind |-> "absent", nextId |-> 0, bots |-> EmptyMap, commands |-> EmptyMap]

\* A bearer token that was never generated.
BadToken == <<"token", "none">>

\* The token field of a call that takes no token.
NoToken == <<"token", "-">>

Result(op, token, arg, out, val) ==
  [op |-> op, token |-> token, arg |-> arg, out |-> out, val |-> val]

\* The state after the two constructors found nothing to load.
InitState ==
  /\ bots = EmptyMap
  /\ nextId = 1
  /\ commands = EmptyMap
  /\ sqlite3 \in BOOLEAN
  /\ fetchAPI \in BOOLEAN
  /\ jsonFile = NoFile
  /\ sqlBots = EmptyMap
  /\ sqlCommands = EmptyMap
  /\ sqliteFile = FALSE
  /\ pending = <<>>
  /\ loading = [bots |-> {}, commands |-> {}]
  /\ minted = <<>>
  /\ events = <<>>

Init == InitState /\ ret = Result("constructor", NoToken, Str(<<>>), "ok", {})

\* ---------------------------------------------------------------- persistence
\* The flat document written by BotManager.saveToStorage.
BotsDoc(n, b) == [kind |-> "bots", nextId |-> n, bots |-> b, commands |-> EmptyMap]

\* The flat document written by CommandProxy.saveCommands.
CommandsDoc(c) == [kind |-> "commands", nextId |-> 0, bots |-> EmptyMap, commands |-> c]

\* REPLACE INTO t (key, json) for every entry of the in-memory map m.
ReplaceInto(t, m) ==
  [k \in (DOMAIN t) \cup (DOMAIN m) |-> IF k \in DOMAIN m THEN m[k] ELSE t[k]]

\* A write queued by db.serialize on the connection of one table: the
\* REPLACE statements of the rows as they were when the save was called.
Write(table, rows) == [table |-> table, rows |-> rows]

\* BotManager.saveToStorage with identities b and counter n, on the disk
\* d = [json, file, pending]; ok: the body of the try block did not throw.
\* new sqlite3.Database(SQLITE_DB) creates the database file.
saveToStorage(d, n, b, ok) ==
  IF ~ok THEN d
  ELSE IF sqlite3
    THEN [d EXCEPT !.file = TRUE, !.pending = Append(@, Write("bots", b))]
    ELSE [d EXCEPT !.json = BotsDoc(n, b)]

\* CommandProxy.saveCommands with registry c on the disk d.
saveCommands(d, c, ok) ==
  IF ~ok THEN d
  ELSE IF sqlite3
    THEN [d EXCEPT !.file = TRUE, !.pending = Append(@, Write("commands", c))]
    ELSE [d EXCEPT !.json = CommandsDoc(c)]

Disk == [json |-> jsonFile, file |-> sqliteFile, pending |-> pending]

SetDisk(d) ==
  /\ jsonFile' = d.json
  /\ sqliteFile' = d.file
  /\ pending' = d.pending
  /\ UNCHANGED <<sqlBots, sqlCommands>>

\* Variant: a save lets the error of its body out to its caller.
Caught_Rethrown(ok) == ok

\* try { ... } catch (e) { logErr(...) } around the body of the two saves
\* (lines 129-144 and 345-359): whether the caller of a save goes on after
\* it. It always does, the error never leaves the save.
Caught(ok) == TRUE

\* logErr('Error saving ...') of the catch blocks, one per save that threw.
SaveErrors(oks) ==
  [i \in 1..Len(SelectSeq(oks, LAMBDA ok : ~ok)) |->
     [kind |-> "logErr", target |-> NULL, command |-> <<>>, via |-> "console",
      result |-> "ok"]]

\* ---------------------------------------------------------------- bot manager
\* BotManager.getBotById: the ids under which String(id) is stored.
getBotById(b, id) == {i \in DOMAIN b : i = id}

\* Variant: the token is not compared, any identity is taken for its bearer.
getBotByToken_Any(b, token) == DOMAIN b

\* BotManager.getBotByToken: the identities whose token is exactly token.
getBotByToken(b, token) == {i \in DOMAIN b : b[i].token = token}

\* Variant: the name is not pushed on the owner's list.
attachCommandToBot_Skip(b, botId, commandName) == b

\* BotManager.attachCommandToBot, on the map b: the new map.
attachCommandToBot(b, botId, commandName) ==
  IF getBotById(b, botId) = {} THEN b
  ELSE IF Includes(b[botId].commands, commandName) THEN b
  ELSE [b EXCEPT ![botId].commands = Append(@, commandName)]

\* Variant: the filter drops every name of the owner, not only commandName.
removeCommandFromBot_Clears(b, botId, commandName) ==
  IF getBotById(b, botId) = {} THEN b
  ELSE [b EXCEPT ![botId].commands = <<>>]

\* BotManager.removeCommandFromBot, on the map b: the new map.
removeCommandFromBot(b, botId, commandName) ==
  IF getBotById(b, botId) = {} THEN b
  ELSE [b EXCEPT ![botId].commands = Without(@, commandName)]

\* A call that throws before changing anything.
Throw(op, token, arg, message) ==
  /\ ret' = Result(op, token, arg, message, {})
  /\ events' = <<>>
  /\ UNCHANGED <<mem, env, disk, loading, minted>>

\* BotManager.createBot({name, role, webhook})
createBot(role, webhook, ok) ==
  IF ~Caught(ok) THEN Throw("createBot", NoToken, Str(<<>>), "save error") ELSE
  /\ LET id == IdOf(nextId)
         bot == [id |-> id, token |-> generateToken(IdOf(Len(minted) + 1)),
                 role |-> role,
                 webhook |-> IF webhook = "" THEN NULL ELSE webhook,
                 commands |-> <<>>]
         nb == (id :> bot) @@ bots
     IN /\ nextId' = nextId + 1
        /\ bots' = nb
        /\ SetDisk(saveToStorage(Disk, nextId + 1, nb, ok))
        /\ minted' = Append(minted, id)
        /\ ret' = Result("createBot", NoToken, Str(<<>>), "ok", {bot})
        /\ events' = SaveErrors(<<ok>>)
  /\ UNCHANGED <<commands, env, loading>>

\* ---------------------------------------------------------------- command proxy
\* !command, for the values offered here: the empty text is falsy (a
\* non-string is refused by the typeof test whatever its truthiness).
Falsy(command) == command.type = "string" /\ command.chars = <<>>

\* CommandProxy.createCommand({token, command, callback, webhook})
createCommand(token, command, callback, webhook, ok1, ok2) ==
  IF getBotByToken(bots, token) = {}
    THEN Throw("createCommand", token, command, "Invalid bot token")
  ELSE IF Falsy(command) \/ command.type # "string"
    THEN Throw("createCommand", token, command, "Invalid command")
  ELSE IF Normalize(command.chars) \in DOMAIN commands
    THEN Throw("createCommand", token, command, "Command already exists")
  ELSE IF ~(Caught(ok1) /\ Caught(ok2))
    THEN Throw("createCommand", token, command, "save error")
  ELSE
    LET bot == bots[CHOOSE i \in getBotByToken(bots, token) : TRUE]
        name == Normalize(command.chars)
        meta == [command |-> name, ownerId |-> bot.id, callback |-> callback,
                 webhook |-> webhook]
        nc == (name :> meta) @@ commands
        nb == attachCommandToBot(bots, bot.id, name)
    IN /\ commands' = nc
       /\ bots' = nb
       /\ SetDisk(saveCommands(saveToStorage(Disk, nextId, nb, ok1), nc, ok2))
       /\ ret' = Result("createCommand", token, command, "ok", {meta})
       /\ events' = SaveErrors(<<ok1, ok2>>)
       /\ UNCHANGED <<nextId, env, loading, minted>>

\* Variant: a name that is not stored falls back to any stored definition.
getCommand_Loose(name) ==
  IF toLowerCase(name.chars) \in DOMAIN commands
    THEN {commands[toLowerCase(name.chars)]}
    ELSE {commands[k] : k \in DOMAIN commands}

\* CommandProxy.getCommand(name): the definition stored under
\* String(name).toLowerCase(), as a set that is empty for null.
getCommand(name) ==
  IF toLowerCase(name.chars) \in DOMAIN commands
    THEN {commands[toLowerCase(name.chars)]}
    ELSE {}

\* A call of getCommand from the administrative surface.
lookupCommand(name) ==
  /\ ret' = Result("getCommand", NoToken, name,
                   IF getCommand(name) = {} THEN "null" ELSE "meta", getCommand(name))
  /\ events' = <<>>
  /\ UNCHANGED <<mem, env, disk, loading, minted>>

\* CommandProxy.deleteCommand(name)
deleteCommand(name, ok1, ok2) ==
  LET key == toLowerCase(name.chars)
  IN IF key \notin DOMAIN commands
       THEN /\ ret' = Result("deleteCommand", NoToken, name, "false", {})
            /\ events' = <<>>
            /\ UNCHANGED <<mem, env, disk, loading, minted>>
     ELSE IF ~(Caught(ok1) /\ Caught(ok2))
       THEN Throw("deleteCommand", NoToken, name, "save error")
       ELSE LET meta == commands[key]
                nc == Remove(commands, key)
                nb == removeCommandFromBot(bots, meta.ownerId, key)
            IN /\ commands' = nc
               /\ bots' = nb
               /\ SetDisk(IF getBotById(bots, meta.ownerId) = {}
                            THEN saveCommands(Disk, nc, ok2)
                            ELSE saveCommands(saveToStorage(Disk, nextId, nb, ok1), nc, ok2))
               /\ ret' = Result("deleteCommand", NoToken, name, "true", {})
               /\ events' = SaveErrors(IF getBotById(bots, meta.ownerId) = {}
                                         THEN <<ok2>> ELSE <<ok1, ok2>>)
               /\ UNCHANGED <<nextId, env, loading, minted>>

\* One external call of the last operation and the way it ended.
Event(kind, target, command, via, result) ==
  [kind |-> kind, target |-> target, command |-> command, via |-> via,
   result |-> result]

\* How a host callback can end: it returns, it throws or rejects with a
\* value whose message can be read, or it throws or rejects with
\* undefined or null.
CallbackOutcomes == {"ok", "error", "nullish"}

\* How a webhook delivery or a console execution can end.
Outcomes == {"ok", "error"}

\* CommandProxy._sendWebhook(url, payload): the POST of the payload, through
\* fetch when it was resolved and through a spawned curl otherwise.
sendWebhook(url, command, result) ==
  Event("webhook", url, command, IF fetchAPI THEN "fetch" ELSE "curl", result)

\* CommandProxy.handlePlayerCommand({playerId, playerName, commandName, args});
\*   callCallback: kainure.callCallback is a function at the time of the call;
\*   cb, wh: how the host callback and the delivery end, when they are made.
\* The definition and the owner are read before the first await and no
\* operation changes a stored definition or an identity's webhook, so the
\* calls interleaved at the awaits do not change the outcome.
handlePlayerCommand(commandName, callCallback, cb, wh) ==
  LET found == getCommand(Str(Normalize(commandName.chars)))
  IN /\ UNCHANGED <<mem, env, disk, loading, minted>>
     /\ IF found = {}
          THEN /\ ret' = Result("handlePlayerCommand", NoToken, commandName, "false", {})
               /\ events' = <<>>
          ELSE
            LET meta == CHOOSE m \in found : TRUE
                called == meta.callback # NULL /\ callCallback
                step1 == IF called
                           THEN <<Event("callCallback", meta.callback, meta.command, "kainure", cb)>>
                           ELSE <<>>
                \* catch (e) { logWarn(..., e.message) } reads a property of e:
                \* with e undefined or null that throws into the outer catch
                escaped == called /\ cb = "nullish"
                owner == getBotById(bots, meta.ownerId)
                delivers == /\ ~escaped
                            /\ meta.webhook
                            /\ owner # {}
                            /\ bots[meta.ownerId].webhook # NULL
                step2 == IF delivers
                           THEN <<sendWebhook(bots[meta.ownerId].webhook, meta.command, wh)>>
                           ELSE <<>>
            IN /\ events' = step1 \o step2
               /\ ret' = Result("handlePlayerCommand", NoToken, commandName,
                                IF escaped THEN "false" ELSE "true", {})

\* Variant: the role that creates commands is privileged too.
PrivilegedRoles_Wide == {"admin", "executor", "command_creator"}

\* The roles allowed to run console commands.
PrivilegedRoles == {"admin", "executor"}

\* CommandProxy.runCommandAsConsole(cmd, token);
\*   execConsoleCommand: kainure.execConsoleCommand is a function;
\*   result: how the execution ends.
runCommandAsConsole(token, execConsoleCommand, result) ==
  IF getBotByToken(bots, token) = {}
    THEN Throw("runCommandAsConsole", token, Str(<<>>), "Invalid bot token")
  ELSE IF /\ bots[CHOOSE i \in getBotByToken(bots, token) : TRUE].role \notin PrivilegedRoles
          /\ bots[CHOOSE i \in getBotByToken(bots, token) : TRUE].role # "admin"
    THEN Throw("runCommandAsConsole", token, Str(<<>>), "Bot permission denied")
  ELSE
    /\ UNCHANGED <<mem, env, disk, loading, minted>>
    /\ IF execConsoleCommand
         THEN /\ events' = <<Event("execConsoleCommand", NULL, <<>>, "kainure", result)>>
              /\ ret' = Result("runCommandAsConsole", token, Str(<<>>),
                               IF result = "ok" THEN "output" ELSE "host failure", {})
         ELSE /\ events' = <<Event("execSync", NULL, <<>>, "child_process", result)>>
              /\ ret' = Result("runCommandAsConsole", token, Str(<<>>),
                               IF result = "ok" THEN "output"
                               ELSE "Exec error: spawn failure", {})

\* The expression of line 202 (and 262) on the text of the last record:
\* command.replace(/^\/+/, '').toLowerCase(), applied to a text and then to
\* its own result; val keeps the texts it was applied to.
normalize ==
  /\ ret.op = "normalize" /\ ret.out \in {"input", "once"}
  /\ ret' = Result("normalize", NoToken, Str(Normalize(ret.arg.chars)),
                   IF ret.out = "input" THEN "once" ELSE "twice",
                   ret.val \cup {ret.arg})
  /\ events' = <<>>
  /\ UNCHANGED <<mem, env, disk, loading, minted>>

\* ---------------------------------------------------------------- process
\* Number(id) for the ids String(nextId++) produces.
NumberOf(id) == CHOOSE n \in 0..(MaxBots + 1) : IdOf(n) = id

Max(a, b) == IF a >= b THEN a ELSE b

RECURSIVE MaxNumber(_)
\* The greatest Number(bot.id) + 1 over the ids, 1 for none (the fold of
\* Math.max over the rows from the counter of a fresh process).
MaxNumber(ids) ==
  IF ids = {} THEN 1
  ELSE LET id == CHOOSE i \in ids : TRUE
       IN Max(NumberOf(id) + 1, MaxNumber(ids \ {id}))

\* BotManager.loadFromStorage in a fresh process where the driver is present
\* or not: the identities and the counter it sets before it returns, the
\* rows its SELECT will hand to the callback, the storage it read.
loadFromStorage(driver) ==
  IF driver /\ sqliteFile
    THEN [bots |-> EmptyMap, nextId |-> 1, rows |-> {sqlBots}, via |-> "sqlite"]
  ELSE IF jsonFile # NoFile
    THEN [bots |-> jsonFile.bots,
          nextId |-> IF jsonFile.nextId = 0 THEN 1 ELSE jsonFile.nextId,
          rows |-> {}, via |-> "json"]
  ELSE [bots |-> EmptyMap, nextId |-> 1, rows |-> {}, via |-> "none"]

\* CommandProxy.initPersistence in a fresh process.
initPersistence(driver) ==
  IF driver /\ sqliteFile
    THEN [commands |-> EmptyMap, rows |-> {sqlCommands}, via |-> "sqlite"]
  ELSE IF jsonFile # NoFile
    THEN [commands |-> jsonFile.commands, rows |-> {}, via |-> "json"]
  ELSE [commands |-> EmptyMap, rows |-> {}, via |-> "none"]

\* The process ends and a new one starts: the requires at the top of the
\* file find the driver or not, then the two constructors run.
Restart(driver) ==
  LET b == loadFromStorage(driver)
      c == initPersistence(driver)
  IN /\ sqlite3' = driver
     /\ bots' = b.bots
     /\ nextId' = b.nextId
     /\ commands' = c.commands
     /\ loading' = [bots |-> b.rows, commands |-> c.rows]
     /\ pending' = <<>>
     /\ ret' = Result("constructor", NoToken, Str(<<>>), b.via, {})
     /\ events' = <<>>
     /\ UNCHANGED <<fetchAPI, jsonFile, sqlBots, sqlCommands, sqliteFile, minted>>

\* The callback of SELECT json FROM bots (lines 154-160).
loadedBots ==
  /\ loading.bots # {}
  /\ LET rows == CHOOSE r \in loading.bots : TRUE
     IN /\ bots' = ReplaceInto(bots, rows)
        /\ nextId' = Max(nextId, MaxNumber(DOMAIN rows))
  /\ loading' = [loading EXCEPT !.bots = {}]
  /\ ret' = Result("loadFromStorage", NoToken, Str(<<>>), "rows", {})
  /\ events' = <<>>
  /\ UNCHANGED <<commands, env, disk, minted>>

\* The callback of SELECT json FROM commands (lines 326-332).
loadedCommands ==
  /\ loading.commands # {}
  /\ commands' = ReplaceInto(commands, CHOOSE r \in loading.commands : TRUE)
  /\ loading' = [loading EXCEPT !.commands = {}]
  /\ ret' = Result("initPersistence", NoToken, Str(<<>>), "rows", {})
  /\ events' = <<>>
  /\ UNCHANGED <<bots, nextId, env, disk, minted>>

\* The interval timer of the BotManager constructor.
timerSaveToStorage(ok) ==
  /\ SetDisk(saveToStorage(Disk, nextId, bots, ok))
  /\ ret' = Result("saveToStorage", NoToken, Str(<<>>), "timer", {})
  /\ events' = SaveErrors(<<ok>>)
  /\ UNCHANGED <<mem, env, loading, minted>>

\* The interval timer of the CommandProxy constructor.
timerSaveCommands(ok) ==
  /\ SetDisk(saveCommands(Disk, commands, ok))
  /\ ret' = Result("saveCommands", NoToken, Str(<<>>), "timer", {})
  /\ events' = SaveErrors(<<ok>>)
  /\ UNCHANGED <<mem, env, loading, minted>>

\* The driver runs the k-th queued write. Each connection (one per table)
\* runs its own writes first in, first out; nothing orders the two
\* connections against each other.
sqliteRun(k) ==
  /\ k \in 1..Len(pending)
  /\ \A j \in 1..(k - 1) : pending[j].table # pending[k].table
  /\ IF pending[k].table = "bots"
       THEN sqlBots' = ReplaceInto(sqlBots, pending[k].rows) /\ UNCHANGED sqlCommands
       ELSE sqlCommands' = ReplaceInto(sqlCommands, pending[k].rows) /\ UNCHANGED sqlBots
  /\ pending' = [i \in 1..(Len(pending) - 1) |->
                   IF i < k THEN pending[i] ELSE pending[i + 1]]
  /\ ret' = Result("sqlite", NoToken, Str(<<>>), pending[k].table, {})
  /\ events' = <<>>
  /\ UNCHANGED <<mem, env, jsonFile, sqliteFile, loading, minted>>

\* ---------------------------------------------------------------- specifications
\* The bearer tokens offered to the operations: one per identity that can
\* exist, and one that was never generated.
Tokens == {generateToken(IdOf(i)) : i \in 1..MaxBots} \cup {BadToken}

\* The bounds: no identity beyond MaxBots, no registry beyond MaxCommands,
\* no more than MaxPending queued writes.
WithinBounds ==
  /\ nextId' <= MaxBots + 1
  /\ Len(minted') <= MaxBots
  /\ Cardinality(DOMAIN commands') <= MaxCommands
  /\ Len(pending') <= MaxPending

\* Registry: identities, creation, lookup and deletion of commands, on the
\* flat-document backend (the operations read the memory and only write
\* the disk, so their results are those of either backend).
InitRegistry == Init /\ ~sqlite3 /\ fetchAPI

CreateBot == createBot("command_creator", NULL, TRUE) /\ WithinBounds

CreateCommand ==
  \E token \in Tokens, command \in CommandArgs,
     opts \in {<<NULL, FALSE>>, <<"OnVipActivate", TRUE>>} :
    createCommand(token, command, opts[1], opts[2], TRUE, TRUE) /\ WithinBounds

GetCommand == \E name \in RawNames : lookupCommand(Str(name))

DeleteCommand == \E name \in RawNames : deleteCommand(Str(name), TRUE, TRUE)

Next == CreateBot \/ CreateCommand \/ GetCommand \/ DeleteCommand

Spec == InitRegistry /\ [][Next]_vars

\* The flat-document backend, with or without a fetch implementation.
InitFlat == Init /\ ~sqlite3

\* Dispatch: player commands against one registrable name ("/V"), with
\* owners with and without a webhook URL.
DispatchBot == \E webhook \in WebhookArgs : createBot("command_creator", webhook, TRUE) /\ WithinBounds

DispatchCommand ==
  \E token \in Tokens, callback \in CallbackArgs, webhook \in BOOLEAN :
    createCommand(token, Str(<<"/", "V">>), callback, webhook, TRUE, TRUE) /\ WithinBounds

DispatchDelete == deleteCommand(Str(<<"v">>), TRUE, TRUE)

HandlePlayerCommand ==
  \E name \in RawNames, callCallback \in BOOLEAN, cb \in CallbackOutcomes,
     wh \in Outcomes :
    handlePlayerCommand(Str(name), callCallback, cb, wh)

NextDispatch == DispatchBot \/ DispatchCommand \/ DispatchDelete \/ HandlePlayerCommand

SpecDispatch == InitFlat /\ [][NextDispatch]_vars

\* Console: identities of every role and console execution.
ConsoleBot == \E role \in Roles : createBot(role, NULL, TRUE) /\ WithinBounds

RunCommandAsConsole ==
  \E token \in Tokens, execConsoleCommand \in BOOLEAN, result \in Outcomes :
    runCommandAsConsole(token, execConsoleCommand, result)

NextConsole == ConsoleBot \/ RunCommandAsConsole

SpecConsole == InitFlat /\ [][NextConsole]_vars

\* Persistence: a deployment over several processes on one backend, with the
\* interval timers, the sqlite write queues and the asynchronous loads.
InitPersist == Init /\ fetchAPI

\* The name offered to the registry of a deployment.
PersistNames == {Str(<<"/", "V">>)}

PersistBot == createBot("command_creator", NULL, TRUE) /\ WithinBounds

PersistCommand ==
  \E token \in Tokens \ {BadToken}, command \in PersistNames,
     opts \in {<<NULL, FALSE>>, <<"OnVipActivate", TRUE>>} :
    createCommand(token, command, opts[1], opts[2], TRUE, TRUE) /\ WithinBounds

\* deleteCommand is called with the names the registry stores.
PersistDelete ==
  \E name \in {Str(Normalize(n.chars)) : n \in PersistNames} :
    deleteCommand(name, TRUE, TRUE) /\ WithinBounds

TimerSaveToStorage == timerSaveToStorage(TRUE) /\ WithinBounds

TimerSaveCommands == timerSaveCommands(TRUE) /\ WithinBounds

SqliteRun == \E k \in 1..MaxPending : sqliteRun(k)

\* The process ends once its queued writes ran; the next one finds the
\* driver as the last one did.
ProcessRestart == pending = <<>> /\ Restart(sqlite3)

NextPersist ==
  \/ PersistBot \/ PersistCommand \/ PersistDelete
  \/ TimerSaveToStorage \/ TimerSaveCommands \/ SqliteRun
  \/ ProcessRestart \/ loadedBots \/ loadedCommands

SpecPersist == InitPersist /\ [][NextPersist]_vars

\* Installation: a deployment whose driver is installed or removed between
\* two processes.
InstallRestart == \E driver \in BOOLEAN : pending = <<>> /\ Restart(driver)

NextInstall ==
  \/ PersistBot \/ PersistCommand \/ SqliteRun
  \/ InstallRestart \/ loadedBots \/ loadedCommands

SpecInstall == InitPersist /\ [][NextInstall]_vars

\* Normalization: every text of at most MaxLen characters over the
\* characters of "/Vip" and "//VIP" goes through the normalization, and
\* commands are created under the three spellings.
Texts == UNION {[1..k -> {"/", "v", "V", "i", "I", "p", "P"}] : k \in 0..MaxLen}

InitNormalize ==
  /\ InitState /\ ~sqlite3 /\ fetchAPI
  /\ ret \in {Result("normalize", NoToken, Str(x), "input", {}) : x \in Texts}

Spellings == {<<"/", "V", "i", "p">>, <<"v", "i", "p">>, <<"/", "/", "V", "I", "P">>}

NormalizeCommand ==
  \E token \in Tokens, command \in {Str(x) : x \in Spellings} :
    createCommand(token, command, NULL, FALSE, TRUE, TRUE) /\ WithinBounds

NormalizeDelete == deleteCommand(Str(<<"v", "i", "p">>), TRUE, TRUE)

NextNormalize == normalize \/ CreateBot \/ NormalizeCommand \/ NormalizeDelete

SpecNormalize == InitNormalize /\ [][NextNormalize]_vars

\* Failure: the mutating operations with saves whose body throws, on either
\* backend; an operation is called when the queued writes of the last one
\* have run.
FailingBot ==
  \E ok \in BOOLEAN :
    pending = <<>> /\ createBot("command_creator", NULL, ok) /\ WithinBounds

FailingCommand ==
  \E token \in Tokens, command \in PersistNames, ok1, ok2 \in BOOLEAN :
    pending = <<>> /\ createCommand(token, command, NULL, FALSE, ok1, ok2) /\ WithinBounds

FailingDelete ==
  \E name \in {Str(Normalize(n.chars)) : n \in PersistNames}, ok1, ok2 \in BOOLEAN :
    pending = <<>> /\ deleteCommand(name, ok1, ok2) /\ WithinBounds

NextFailure == FailingBot \/ FailingCommand \/ FailingDelete \/ SqliteRun

SpecFailure == InitPersist /\ [][NextFailure]_vars

\* ---------------------------------------------------------------- properties
\* The token is the bearer token of some identity.
TokenResolves(token) == \E i \in DOMAIN bots : bots[i].token = token

\* The identities whose owned-command list holds n.
OwnersOf(b, n) == {i \in DOMAIN b : Includes(b[i].commands, n)}

\* The names on some owned-command list.
OwnedNames ==
  UNION {{bots[i].commands[k] : k \in 1..Len(bots[i].commands)} : i \in DOMAIN bots}

\* The events of one kind among es.
OfKind(es, kind) == SelectSeq(es, LAMBDA e : e.kind = kind)

\* C1: in every state reached by createBot, createCommand and deleteCommand,
\* a name is a key of the registry if and only if it is on the owned-command
\* list of exactly one identity, the one its definition names as ownerId.
C1_RegistryMatchesOwnership ==
  \A n \in (DOMAIN commands) \cup OwnedNames :
    /\ n \in DOMAIN commands
    /\ OwnersOf(bots, n) = {commands[n].ownerId}

\* C1 witness: two identities exist, the first one's command was deleted and
\* the second one still owns a registered command.
C1_Witness ==
  /\ ret.op = "deleteCommand" /\ ret.out = "true"
  /\ DOMAIN bots = {"1", "2"}
  /\ bots["1"].commands = <<>>
  /\ \E n \in DOMAIN commands : commands[n].ownerId = "2"

\* C2: createCommand with a token that resolves to no identity fails with
\* the invalid-token error whatever the other arguments are, and leaves the
\* registry and every identity (its owned-command list included) unchanged.
C2_InvalidTokenRejected ==
  [][(ret'.op = "createCommand" /\ ~TokenResolves(ret'.token))
       => /\ ret'.out = "Invalid bot token"
          /\ commands' = commands
          /\ bots' = bots
          /\ nextId' = nextId]_vars

\* C2 witness: a creation with an unknown token and an already registered
\* name has just failed with the invalid-token error.
C2_Witness ==
  /\ ret.op = "createCommand" /\ ret.out = "Invalid bot token"
  /\ ret.arg.type = "string"
  /\ Normalize(ret.arg.chars) \in DOMAIN commands

\* C3 as stated: with a command registered under n, createCommand with a
\* valid token and any text that normalizes to n fails with the
\* duplicate-name error and changes neither the registry nor any identity.
C3_DuplicateRejected ==
  [][(/\ ret'.op = "createCommand"
      /\ TokenResolves(ret'.token)
      /\ ret'.arg.type = "string"
      /\ Normalize(ret'.arg.chars) \in DOMAIN commands)
       => /\ ret'.out = "Command already exists"
          /\ commands' = commands
          /\ bots' = bots]_vars

C5_LookupNormalizes ==
  [][(/\ ret'.arg.type = "string"
      /\ Normalize(ret'.arg.chars) # <<>>
      /\ Normalize(ret'.arg.chars) \in DOMAIN commands)
       => /\ ret'.op = "getCommand" =>
               ret'.val = {commands[Normalize(ret'.arg.chars)]}
          /\ ret'.op = "deleteCommand" =>
               /\ ret'.out = "true"
               /\ Normalize(ret'.arg.chars) \notin DOMAIN commands']_vars

\* The definition a player command text resolves to by its normalized name.
Matched(arg) == commands[Normalize(arg.chars)]

\* The definition enables the webhook and its owner has a webhook URL.
WebhookDue(meta) ==
  /\ meta.webhook
  /\ meta.ownerId \in DOMAIN bots
  /\ bots[meta.ownerId].webhook # NULL

\* C6: handlePlayerCommand for a text whose normalized name is not registered
\* returns false, calls no host callback, sends no webhook and leaves the
\* registry, the identity store and the persisted state unchanged.
C6_UnregisteredUnhandled ==
  [][(ret'.op = "handlePlayerCommand" /\ Normalize(ret'.arg.chars) \notin DOMAIN commands)
       => /\ ret'.out = "false"
          /\ events' = <<>>
          /\ UNCHANGED <<bots, nextId, commands, jsonFile, sqlBots, sqlCommands,
                         sqliteFile, pending>>]_vars

\* C6 witness: a player command that is not registered was reported unhandled
\* while another name is registered with a callback and a deliverable webhook.
C6_Witness ==
  /\ ret.op = "handlePlayerCommand" /\ ret.out = "false"
  /\ Normalize(ret.arg.chars) \notin DOMAIN commands
  /\ \E n \in DOMAIN commands : commands[n].callback # NULL /\ WebhookDue(commands[n])

\* C7 as stated: when the callback of the matched definition is invoked and
\* fails, the call still returns true and the webhook delivery is attempted
\* after it whenever the definition enables it and the owner has a URL.
C7_CallbackFailureIsolated ==
  [][(/\ ret'.op = "handlePlayerCommand"
      /\ \E i \in 1..Len(events') :
           events'[i].kind = "callCallback" /\ events'[i].result # "ok")
       => /\ ret'.out = "true"
          /\ WebhookDue(Matched(ret'.arg)) =>
               /\ Len(events') = 2
               /\ events'[2].kind = "webhook"]_vars

\* C8 as stated: a failed webhook delivery, through fetch or through curl,
\* is not propagated and the call returns true; the call returns true
\* exactly when a matching definition was found.
C8_ReturnsTrueIffMatched ==
  [][ret'.op = "handlePlayerCommand"
       => /\ ret'.out \in {"true", "false"}
          /\ (\E i \in 1..Len(events') :
                events'[i].kind = "webhook" /\ events'[i].result = "error")
               => ret'.out = "true"
          /\ ret'.out = "true" <=> Normalize(ret'.arg.chars) \in DOMAIN commands]_vars

\* C9 as stated: one handlePlayerCommand on a registered command invokes the
\* callback at most once and delivers at most one webhook; the delivery is
\* made exactly when the definition enables it and the owner has a webhook
\* URL; it goes to that URL and names the normalized command.
C9_OneDeliveryWhenDue ==
  [][(ret'.op = "handlePlayerCommand" /\ Normalize(ret'.arg.chars) \in DOMAIN commands)
       => /\ Len(OfKind(events', "callCallback")) <= 1
          /\ Len(OfKind(events', "webhook")) <= 1
          /\ Len(OfKind(events', "webhook")) = 1 <=> WebhookDue(Matched(ret'.arg))
          /\ \A i \in 1..Len(events') :
               events'[i].kind = "webhook" =>
                 /\ events'[i].command = Normalize(ret'.arg.chars)
                 /\ events'[i].target = bots[Matched(ret'.arg).ownerId].webhook]_vars

\* C10: runCommandAsConsole with a token that resolves to no identity fails
\* with the invalid-token error, with the token of an identity whose role is
\* neither admin nor executor it fails with the permission error, and in
\* both cases neither the host console hook nor the local execution is called.
C10_ConsoleGuarded ==
  [][ret'.op = "runCommandAsConsole"
       => /\ ~TokenResolves(ret'.token) =>
               ret'.out = "Invalid bot token" /\ events' = <<>>
          /\ \A i \in DOMAIN bots :
               (bots[i].token = ret'.token /\ bots[i].role \notin {"admin", "executor"})
                 => ret'.out = "Bot permission denied" /\ events' = <<>>]_vars

\* C10 witness: the token of a command_creator was refused while an identity
\* with a privileged role exists.
C10_Witness ==
  /\ ret.op = "runCommandAsConsole" /\ ret.out = "Bot permission denied"
  /\ events = <<>>
  /\ \E i \in DOMAIN bots : bots[i].token = ret.token /\ bots[i].role = "command_creator"
  /\ \E i \in DOMAIN bots : bots[i].role \in {"admin", "executor"}

\* C11: a console execution that fails for an identity with a privileged
\* role, in the host hook or in the local subprocess, ends in the execution
\* error that wraps the message of the failure.
C11_ExecFailureWrapped ==
  [][(ret'.op = "runCommandAsConsole"
        /\ \E i \in 1..Len(events') : events'[i].result = "error")
       => ret'.out \in {"Exec error: host failure", "Exec error: spawn failure"}]_vars

\* C12: on the flat-document backend, a process that ends right after a
\* createCommand or deleteCommand whose two saves were written (the
\* identities with the counter, then the registry: the full state) is
\* followed by a process that holds the same identities, the same counter
\* and the same commands, field for field.
C12_RoundTrip ==
  [][(/\ ret'.op = "constructor" /\ ~sqlite3 /\ ~sqlite3'
      /\ ret.op \in {"createCommand", "deleteCommand"}
      /\ ret.out \in {"ok", "true"}
      /\ events = <<>>)
       => /\ bots' = bots
          /\ nextId' = nextId
          /\ commands' = commands]_vars

\* The commands of the persisted state of the backend in use.
PersistedCommands == IF sqlite3 THEN sqlCommands ELSE jsonFile.commands

\* C13: once every write has completed (none is queued) and the startup
\* load has been delivered, the persisted state holds no command that the
\* registry does not hold: none that was deleted.
C13_NoDeletedCommandPersisted ==
  (pending = <<>> /\ loading.bots = {} /\ loading.commands = {})
    => DOMAIN PersistedCommands \subseteq DOMAIN commands

\* C14: over the createBot calls of all the processes of a deployment, no id
\* is given to two identities.
C14_IdsNeverReused ==
  \A i, j \in 1..Len(minted) : minted[i] = minted[j] => i = j

\* C15: the constructors of a process read the storage of the backend its
\* saves write: the flat document only when the driver is absent, the
\* tables only when it is present, also when the driver is present and its
\* database file does not exist yet.
C15_OneBackendPerProcess ==
  [][ret'.op = "constructor"
       => /\ ret'.out = "json" => ~sqlite3'
          /\ ret'.out = "sqlite" => sqlite3']_vars

\* C16: the queued writes run in the order in which the saves issued them,
\* the oldest first, and when the last of them has run the table it wrote
\* holds the rows of that write, no others.
C16_WritesInIssueOrder ==
  [][ret'.op = "sqlite"
       => /\ pending' = Tail(pending)
          /\ pending' = <<>> =>
               /\ pending[1].table = "bots" => sqlBots' = pending[1].rows
               /\ pending[1].table = "commands" => sqlCommands' = pending[1].rows]_vars

\* C17: normalizing a normalized text changes nothing; "/Vip", "vip" and
\* "//VIP" all normalize to "vip"; and a successful createCommand stores the
\* definition under a name that normalization leaves as it is, which is
\* "vip" for each of the three spellings.
C17_NormalizeIdempotent ==
  [][/\ (ret'.op = "normalize" /\ ret.out = "once") => ret'.arg = ret.arg
     /\ (ret'.op = "normalize" /\ ret.out = "input" /\ ret.arg.chars \in Spellings)
          => ret'.arg = Str(<<"v", "i", "p">>)
     /\ (ret'.op = "createCommand" /\ ret'.out = "ok")
          => /\ DOMAIN commands' = DOMAIN commands \cup {<<"v", "i", "p">>}
             /\ commands'[<<"v", "i", "p">>].command = <<"v", "i", "p">>
             /\ \A n \in DOMAIN commands' : Normalize(n) = n]_vars

\* C17 witness: "//VIP" went through the normalization twice and is "vip".
C17_Witness ==
  /\ ret.op = "normalize" /\ ret.out = "twice"
  /\ ret.arg = Str(<<"v", "i", "p">>)
  /\ ret.val = {Str(<<"/", "/", "V", "I", "P">>), Str(<<"v", "i", "p">>)}

\* The saves of the last call that threw.
SaveFailures(es) == Len(OfKind(es, "logErr"))

\* C18: whether its saves throw or not, a createBot returns the new identity
\* and the identities hold it under the next id; a createCommand with the
\* token of an identity and a name that is free returns the definition, and
\* the registry and the list of the owner hold it; a deleteCommand of a
\* stored name returns true, and neither the registry nor a list holds the
\* name.
C18_SaveFailureKeepsMutation ==
  [][/\ ret'.op = "createBot"
          => /\ ret'.out = "ok"
             /\ \E bot \in ret'.val :
                  /\ bot.id \notin DOMAIN bots
                  /\ bots' = (bot.id :> bot) @@ bots
             /\ nextId' = nextId + 1
     /\ (/\ ret'.op = "createCommand" /\ TokenResolves(ret'.token)
         /\ ret'.arg.type = "string" /\ ret'.arg.chars # <<>>
         /\ Normalize(ret'.arg.chars) \notin DOMAIN commands)
          => /\ ret'.out = "ok"
             /\ \E meta \in ret'.val :
                  /\ commands' = (Normalize(ret'.arg.chars) :> meta) @@ commands
                  /\ Includes(bots'[meta.ownerId].commands, Normalize(ret'.arg.chars))
     /\ (ret'.op = "deleteCommand" /\ ret'.arg.chars \in DOMAIN commands)
          => /\ ret'.out = "true"
             /\ commands' = Remove(commands, ret'.arg.chars)
             /\ \A i \in DOMAIN bots' :
                  ~Includes(bots'[i].commands, ret'.arg.chars)]_vars

\* C18 witness: a command was created while both saves threw: nothing was
\* written, the registry holds the command.
C18_Witness ==
  /\ ret.op = "createCommand" /\ ret.out = "ok"
  /\ SaveFailures(events) = 2
  /\ <<"v">> \in DOMAIN commands
  /\ jsonFile = NoFile /\ pending = <<>> /\ sqlCommands = EmptyMap

\* C19: the registry holds no definition under the empty name.
C19_NoEmptyName == <<>> \notin DOMAIN commands

\* C20: within a process, a definition of the registry stays as it is, with
\* its owner, until deleteCommand is called with its name; and createCommand
\* does not accept a name that is among the stored commands the startup
\* load has still to deliver.
C20_DefinitionStable ==
  [][ret'.op # "constructor"
       => /\ \A n \in DOMAIN commands :
               (ret'.op = "deleteCommand" /\ ret'.arg.chars = n)
                 \/ (n \in DOMAIN commands' /\ commands'[n] = commands[n])
          /\ (ret'.op = "createCommand" /\ ret'.out = "ok")
               => \A rows \in loading.commands :
                    \A meta \in ret'.val : meta.command \notin DOMAIN rows]_vars

====
